---- MODULE Spec2Model ----
(***************************************************************************)
(* A model of src/cli/llm_commit.py: the commit-message workflow of main() *)
(* (dependency check, branch step, diff collection, generation, ticket     *)
(* prefix, edit, commit, push, PR creation) together with the pure text    *)
(* functions it uses.  Text is modelled as a sequence of one-character     *)
(* strings.  External programs (git, the editor, the PR tool), the HTTP    *)
(* endpoint and the user at the terminal are the environment: their        *)
(* results are chosen nondeterministically in each step.                   *)
(***************************************************************************)
EXTENDS Integers, Sequences, FiniteSets, TLC

\* ------------------------------------------------------------------ bounds
\* longest raw response of the generation endpoint, in characters
MaxRespLen == 2
\* how many times the user is willing to answer 'y' to the stage-all prompt
MaxStageYes == 2
\* counters of external invocations saturate here
MaxCalls == 2
\* longest text a text function is applied to in TextSpec
MaxTextLen == 4
\* longest file list and longest diff text create_prompt is applied to in TextSpec
MaxFiles == 2
MaxDiffLen == 2

\* ------------------------------------------------------------------ text
NL == "\n"
Whitespace == {" ", NL}
\* the argument of message.rstrip(".!?,;:")
TrailingPunct == {".", "!", "?", ",", ";", ":"}
Upper == {"T", "N", "O", "J", "I", "R", "A"}
Digits == {"1", "2"}
LowerLetters == {"a", "f", "m", "n", "o", "j", "i", "r"}
\* \w of Python's re module, restricted to the characters of the model
WordChars == Upper \cup Digits \cup LowerLetters \cup {"_"}

Min(a, b) == IF a < b THEN a ELSE b

RECURSIVE LStripSet(_, _)
LStripSet(s, cs) ==
    IF s # <<>> /\ Head(s) \in cs THEN LStripSet(Tail(s), cs) ELSE s

RECURSIVE RStripSet(_, _)
RStripSet(s, cs) ==
    IF s # <<>> /\ s[Len(s)] \in cs
    THEN RStripSet(SubSeq(s, 1, Len(s) - 1), cs)
    ELSE s

\* str.strip()
Strip(s) == RStripSet(LStripSet(s, Whitespace), Whitespace)

HasNewline(s) == \E i \in 1..Len(s) : s[i] = NL

\* s.split("\n")[0]
RECURSIVE FirstLine(_)
FirstLine(s) ==
    IF s = <<>> \/ Head(s) = NL THEN <<>> ELSE <<Head(s)>> \o FirstLine(Tail(s))

\* str.lower() on the characters of the model
LowerChar(c) ==
    CASE c = "T" -> "t" [] c = "N" -> "n" [] c = "O" -> "o" [] c = "J" -> "j"
      [] c = "I" -> "i" [] c = "R" -> "r" [] c = "A" -> "a"
      [] c = "Y" -> "y" [] OTHER -> c
LowerStr(s) == [i \in 1..Len(s) |-> LowerChar(s[i])]

\* needle in haystack
ContainsSub(hay, needle) ==
    \E i \in 1..(Len(hay) - Len(needle) + 1) :
        SubSeq(hay, i, i + Len(needle) - 1) = needle

FirstLineNotStripped(message) ==
    IF HasNewline(message) THEN FirstLine(message) ELSE message
\* the post-processing of generate_commit_message on the "response" field
FirstLineOrAll(message) ==
    IF HasNewline(message)
    THEN LET first_line == Strip(FirstLine(message))
         IN  IF first_line # <<>> THEN first_line ELSE message
    ELSE message

PostProcess(response) == RStripSet(FirstLineOrAll(Strip(response)), TrailingPunct)

\* ------------------------------------------------------------------ ticket
NoTicket == <<>>
NOJIRA == <<"N", "O", "J", "I", "R", "A">>

\* length of the run of characters of cs that starts at position i
RECURSIVE RunLen(_, _, _)
RunLen(s, i, cs) ==
    IF i <= Len(s) /\ s[i] \in cs THEN 1 + RunLen(s, i + 1, cs) ELSE 0

\* [A-Z]+-\d+ matched at position g (greedy; both runs are forced)
TicketAt(s, g) ==
    LET u == RunLen(s, g, Upper)
        d == RunLen(s, g + u + 1, Digits)
    IN  IF u >= 1 /\ g + u <= Len(s) /\ s[g + u] = "-" /\ d >= 1
        THEN SubSeq(s, g, g + u + d)
        ELSE NoTicket

GroupStartsAnywhere(s) == 1..Len(s)
\* group starts allowed by (?:^|[/-])
GroupStarts(s) ==
    {g \in 1..Len(s) : g = 1 \/ s[g - 1] \in {"/", "-"}}

\* extract_ticket_from_branch, given git rev-parse's return code and output
ExtractTicket(rc, out) ==
    IF rc # 0 THEN NoTicket
    ELSE LET branch_name == Strip(out)
             hits == {g \in GroupStarts(branch_name) :
                        TicketAt(branch_name, g) # NoTicket}
         IN  IF hits # {}
             THEN TicketAt(branch_name,
                           CHOOSE g \in hits : \A h \in hits : g <= h)
             ELSE IF ContainsSub(LowerStr(branch_name), LowerStr(NOJIRA))
                  THEN NOJIRA
                  ELSE NoTicket

\* re.search(rf'\b{re.escape(ticket)}\b', message)
HasTicketWord(ticket, message) ==
    \E i \in 1..(Len(message) - Len(ticket) + 1) :
        /\ SubSeq(message, i, i + Len(ticket) - 1) = ticket
        /\ (i = 1 \/ message[i - 1] \notin WordChars)
        /\ (i + Len(ticket) - 1 = Len(message)
              \/ message[i + Len(ticket)] \notin WordChars)

AddPrefixIfNotSubstring(ticket, message) ==
    IF ticket # NoTicket /\ ~ContainsSub(message, ticket)
    THEN ticket \o <<":", " ">> \o message
    ELSE message
\* main, lines 531-536
AddPrefix(ticket, message) ==
    IF ticket # NoTicket /\ ~HasTicketWord(ticket, message)
    THEN ticket \o <<":", " ">> \o message
    ELSE message

\* ------------------------------------------------------------------ state
\* --branch is absent
NoBranch == <<>>
MainBranch == <<"m", "a", "i", "n">>
FeatureBranch == <<"f", "/", "T", "-", "1">>
BranchNames == {MainBranch, FeatureBranch}

\* what the user may type at a prompt
Inputs == {"y", "Y", "n", "N", ""}
\* return codes of an external command
RC == {0, 1}
\* characters of a raw response, and the raw responses
RespChars == {"a", ".", " ", NL}
RECURSIVE SeqsUpTo(_, _)
SeqsUpTo(cs, n) ==
    IF n = 0 THEN {<<>>}
    ELSE LET shorter == SeqsUpTo(cs, n - 1)
         IN  shorter \cup {Append(s, c) : s \in shorter, c \in cs}
\* responses that mention a ticket: as a whole word, and inside a longer word
TicketResponses == {<<"T", "-", "1">>, <<"T", "-", "1", "1">>}
Responses == SeqsUpTo(RespChars, MaxRespLen) \cup TicketResponses
\* ------------------------------------------------------------------ prompt
\* --style, line 474: choices
Styles == {"conventional", "compact", "detailed", "concise"}
\* line 78
DEFAULT_STYLE == "conventional"
\* create_prompt, lines 168-243: the template of a style. The instruction
\* text of a style is one element (it holds no brace); "Changed files:",
\* "Diff:", the line ends and the two "{}" slots are as in the source.
Instructions(style) ==
    CASE style = "conventional" -> "conventional_instructions"
      [] style = "compact" -> "compact_instructions"
      [] style = "detailed" -> "detailed_instructions"
      [] OTHER -> "concise_instructions"
Template(style) ==
    <<NL, Instructions(style), NL, NL, "Changed files:", NL, "{", "}", NL, NL,
      "Diff:", NL, "{", "}", NL>>
\* "\n".join(files), line 245
RECURSIVE JoinLines(_)
JoinLines(fs) ==
    IF fs = <<>> THEN <<>>
    ELSE IF Len(fs) = 1 THEN fs[1]
    ELSE fs[1] \o <<NL>> \o JoinLines(Tail(fs))
RECURSIVE FormatByReplace(_, _)
FormatByReplace(template, fields) ==
    IF fields = <<>> THEN template
    ELSE LET slots == {i \in 1..(Len(template) - 1) :
                          template[i] = "{" /\ template[i + 1] = "}"}
         IN  IF slots = {} THEN template
             ELSE LET i == CHOOSE j \in slots : \A k \in slots : j <= k
                  IN  FormatByReplace(SubSeq(template, 1, i - 1) \o Head(fields)
                                        \o SubSeq(template, i + 2, Len(template)),
                                      Tail(fields))
\* str.format with automatic numbering, line 246: the template is scanned
\* once, each "{}" takes the next field, the fields are not scanned
RECURSIVE Format(_, _)
Format(template, fields) ==
    IF template = <<>> THEN <<>>
    ELSE IF Len(template) >= 2 /\ template[1] = "{" /\ template[2] = "}"
    THEN Head(fields) \o Format(SubSeq(template, 3, Len(template)), Tail(fields))
    ELSE <<template[1]>> \o Format(Tail(template), fields)
\* create_prompt, lines 166-246
create_prompt(d, style, fs) == Format(Template(style), <<JoinLines(fs), d>>)
\* the staged changes as main holds them: the diff is the hunks in the order
\* git prints them, the file list is one name for each
ChangeOrder == <<"f1", "f2", "f3">>
InOrder(changes) == SelectSeq(ChangeOrder, LAMBDA c : c \in changes)
DiffText(changes) == InOrder(changes)
\* get_changed_files, line 144: stdout.strip().split('\n')
FileList(changes) ==
    IF changes = {} THEN << <<>> >>
    ELSE [i \in 1..Len(InOrder(changes)) |-> <<InOrder(changes)[i]>>]

\* what the user may leave in the temporary file besides the text written to it
EditChoices == {<<>>, <<"a", NL>>}

PromptNames == {"stage", "switch", "commit", "push", "pr"}
CallNames == {"diff", "add", "checkout", "checkout_b", "generate", "commit",
              "push_changes", "git_push", "pr_tool"}

VARIABLES
    args,           \* the parsed options (read-only after start)
    pc,             \* the step main() is at
    exitCode,       \* the process's exit code, -1 while it runs
    exitAt,         \* the place the process ended at
    index,          \* the staged changes (git diff --staged)
    wtIn,           \* unstaged changes under the current directory
    wtOut,          \* unstaged changes outside the current directory
    currentBranch,  \* git rev-parse --abbrev-ref HEAD
    localBranches,  \* refs/heads/*
    commits,        \* commits created by this run
    diff,           \* main's diff
    files,          \* main's files
    message,        \* main's message
    raw,            \* the text a text function is applied to (TextSpec)
    generated,      \* what generate_commit_message returned
    ticket,         \* main's ticket
    push_success,   \* main's push_success
    tmpFile,        \* whether edit_message's temporary file exists
    calls,          \* how often each external step was started
    handed,         \* the messages passed to git commit -m
    asked,          \* how often each prompt was shown
    declined,       \* the prompts answered with "no"
    accepted,       \* the prompts answered with "yes"
    failed,         \* the external commands that returned failure
    pushed,         \* whether a git push of this run succeeded
    interrupted,    \* whether KeyboardInterrupt was caught
    prompt,         \* main's prompt
    pr_run          \* what create_pr did: base branch check, fetch, tool, result

vars == <<args, pc, exitCode, exitAt, index, wtIn, wtOut, currentBranch,
          localBranches, commits, diff, files, message, push_success, tmpFile,
          calls, handed, asked, declined, accepted, failed, pushed, interrupted,
          raw, generated, ticket, prompt, pr_run>>

repoVars == <<index, wtIn, wtOut, currentBranch, localBranches, commits>>
localVars == <<diff, files, message, push_success>>
promptVars == <<asked, declined, accepted>>
genVars == <<raw, generated, ticket>>

\* --base, lines 492-493: the option is read only by the create_pr calls, so
\* its value is drawn where it is read
Bases == {MainBranch, <<"d", "e", "v">>}
\* what git remote prints, one name on each line
RemoteLists == {<<>>, <<"upstream", "origin">>}
\* how the llm_pr tool ends: its exit status, or it could not be started
ToolOutcomes == {"exit_0", "exit_1", "not_started"}
NoFetch == <<>>
\* in place of the exit status of a command that was not run
NotRun == -1
NoPrRun == [ran |-> FALSE]

\* the styles the workflow is run with: the default and the multi-line one
\* (the style reaches create_prompt only; TextSpec applies it to all four)
WorkflowStyles == {DEFAULT_STYLE, "detailed"}
ArgSets ==
    [yes : BOOLEAN, dry_run : BOOLEAN, push : BOOLEAN, pr : BOOLEAN,
     edit : BOOLEAN, prefix : BOOLEAN, branch : {NoBranch} \cup BranchNames,
     style : WorkflowStyles]

Init ==
    /\ args \in ArgSets
    /\ pc = "check_dependencies"
    /\ exitCode = -1
    /\ exitAt = "running"
    /\ index \in SUBSET {"f1"}
    /\ wtIn \in SUBSET {"f2"}
    /\ wtOut \in SUBSET {"f3"}
    /\ currentBranch = MainBranch
    /\ localBranches \in {{MainBranch}, {MainBranch, FeatureBranch}}
    /\ commits = 0
    /\ diff = {}
    /\ files = {}
    /\ message = <<>>
    /\ raw = <<>>
    /\ generated = <<>>
    /\ ticket = NoTicket
    /\ push_success = FALSE
    /\ tmpFile = FALSE
    /\ calls = [c \in CallNames |-> 0]
    /\ handed = {}
    /\ asked = [p \in PromptNames |-> 0]
    /\ declined = {}
    /\ accepted = {}
    /\ failed = {}
    /\ pushed = FALSE
    /\ interrupted = FALSE
    /\ prompt = <<>>
    /\ pr_run = NoPrRun

\* ------------------------------------------------------------------ helpers
Bump(f, k) == [f EXCEPT ![k] = Min(@ + 1, MaxCalls)]

\* sys.exit(code)
Exit(code, why) ==
    /\ pc' = "done"
    /\ exitCode' = code
    /\ exitAt' = why

\* go on with step label; falling off the end of main() is exit code 0
Goto(label) ==
    IF label = "done"
    THEN Exit(0, "completed")
    ELSE pc' = label /\ UNCHANGED <<exitCode, exitAt>>

\* choice.lower() == 'y' / choice.lower() == 'n'
SaysY(choice) == LowerChar(choice) = "y"
SaysN(choice) == LowerChar(choice) = "n"

AfterEditIgnoringDryRun ==
    IF args.yes THEN "commit_direct" ELSE "create_commit"
\* main, lines 549-590: what follows the edit step
AfterEdit ==
    IF args.dry_run THEN "done"
    ELSE IF args.yes THEN "commit_direct" ELSE "create_commit"
\* main, lines 542-547
AfterPrefix == IF args.edit THEN "edit_message" ELSE AfterEdit
\* main, lines 530-536
AfterGenerate == IF args.prefix THEN "add_prefix" ELSE AfterPrefix

\* ------------------------------------------------------------------ steps
TagsOkUnlessUnreachable(tags) == tags # "connection_error"
\* check_dependencies, line 104: response.status_code != 200
TagsOk(tags) == tags = "200"

\* check_dependencies: git --version, then GET /api/tags
CheckDependencies ==
    /\ pc = "check_dependencies"
    /\ \E git_ok \in BOOLEAN, tags \in {"200", "500", "connection_error"} :
          /\ failed' = IF ~git_ok THEN failed \cup {"git_version"}
                       ELSE IF tags # "200" THEN failed \cup {"api_tags"}
                       ELSE failed
          /\ IF ~git_ok \/ ~TagsOk(tags)
             THEN Exit(1, "dependency")
             ELSE Goto(IF args.branch # NoBranch THEN "create_branch"
                                                 ELSE "get_git_diff")
    /\ UNCHANGED <<args, prompt, pr_run, genVars, repoVars, localVars, tmpFile, calls, handed,
                   promptVars, pushed, interrupted>>

\* main, lines 505-507: create_branch returned False
BranchStepFailed(why) == Exit(1, why)

BranchExistsNever == FALSE
\* create_branch, lines 338-341: git show-ref --verify refs/heads/<name>
BranchExists == args.branch \in localBranches

\* create_branch(args.branch) and main's test of its result
CreateBranch ==
    /\ pc = "create_branch"
    /\ IF BranchExists
       THEN \E choice \in Inputs, rc \in RC :
              /\ asked' = Bump(asked, "switch")
              /\ IF SaysN(choice)
                 THEN /\ declined' = declined \cup {"switch"}
                      /\ BranchStepFailed("switch_declined")
                      /\ UNCHANGED <<accepted, calls, failed, currentBranch>>
                 ELSE /\ accepted' = accepted \cup {"switch"}
                      /\ calls' = Bump(calls, "checkout")
                      /\ UNCHANGED declined
                      /\ IF rc # 0
                         THEN /\ failed' = failed \cup {"checkout"}
                              /\ BranchStepFailed("checkout_failed")
                              /\ UNCHANGED currentBranch
                         ELSE /\ currentBranch' = args.branch
                              /\ Goto("get_git_diff")
                              /\ UNCHANGED failed
              /\ UNCHANGED localBranches
       ELSE \E rc \in RC :
              /\ calls' = Bump(calls, "checkout_b")
              /\ IF rc # 0
                 THEN /\ failed' = failed \cup {"checkout"}
                      /\ BranchStepFailed("checkout_failed")
                      /\ UNCHANGED <<currentBranch, localBranches>>
                 ELSE /\ currentBranch' = args.branch
                      /\ localBranches' = localBranches \cup {args.branch}
                      /\ Goto("get_git_diff")
                      /\ UNCHANGED failed
              /\ UNCHANGED promptVars
    /\ UNCHANGED <<args, prompt, pr_run, genVars, index, wtIn, wtOut, commits, localVars, tmpFile,
                   handed, pushed, interrupted>>

\* get_git_diff, lines 115-117
StagedDiffFailed == Exit(1, "diff_error")
\* get_git_diff, lines 121-122: stdout of git diff; its return code is not read
UnstagedOutput(rc) == IF rc = 0 THEN wtIn \cup wtOut ELSE {}
StageDeclinedAsError == Exit(1, "declined_stage")
\* get_git_diff, lines 128-130
StageDeclined == Exit(0, "declined_stage")
\* get_git_diff, lines 131-133
NoChanges == Exit(0, "no_changes")
\* run(["git", "add", "."], check=True) raising CalledProcessError, uncaught
AddFailed == Exit(1, "add_error")
\* get_git_diff, line 127: return get_git_diff()
AfterAdd == Goto("get_git_diff")

StagedOutputDropped == {}
\* get_git_diff, line 114: the output of git diff --staged
StagedOutput == index

\* one invocation of get_git_diff
GetGitDiff ==
    /\ pc = "get_git_diff"
    /\ \E rc \in RC, urc \in RC, choice \in Inputs, arc \in RC :
          IF rc # 0
          THEN /\ failed' = failed \cup {"diff_staged"}
               /\ StagedDiffFailed
               /\ calls' = Bump(calls, "diff")
               /\ UNCHANGED <<index, wtIn, diff, promptVars>>
          ELSE IF StagedOutput # {}
          THEN /\ diff' = StagedOutput
               /\ Goto("get_changed_files")
               /\ calls' = Bump(calls, "diff")
               /\ UNCHANGED <<index, wtIn, failed, promptVars>>
          ELSE IF UnstagedOutput(urc) = {}
          THEN /\ failed' = IF urc # 0 THEN failed \cup {"diff_unstaged"}
                                       ELSE failed
               /\ NoChanges
               /\ calls' = Bump(calls, "diff")
               /\ UNCHANGED <<index, wtIn, diff, promptVars>>
          ELSE /\ asked' = Bump(asked, "stage")
               /\ IF SaysY(choice)
                  THEN /\ asked["stage"] < MaxStageYes
                       /\ accepted' = accepted \cup {"stage"}
                       /\ calls' = Bump(Bump(calls, "diff"), "add")
                       /\ UNCHANGED <<declined, diff>>
                       /\ IF arc # 0
                          THEN /\ failed' = failed \cup {"add"}
                               /\ AddFailed
                               /\ UNCHANGED <<index, wtIn>>
                          ELSE /\ index' = index \cup wtIn
                               /\ wtIn' = {}
                               /\ AfterAdd
                               /\ UNCHANGED failed
                  ELSE /\ declined' = declined \cup {"stage"}
                       /\ StageDeclined
                       /\ calls' = Bump(calls, "diff")
                       /\ UNCHANGED <<accepted, failed, index, wtIn,
                                      diff>>
    /\ UNCHANGED <<args, prompt, pr_run, genVars, wtOut, currentBranch, localBranches, commits, files,
                   message, push_success, tmpFile, handed, pushed, interrupted>>

\* get_changed_files, lines 140-142
ChangedFilesFailed == Exit(1, "diff_error")

\* get_changed_files, then create_prompt (main, lines 510-521)
GetChangedFiles ==
    /\ pc = "get_changed_files"
    /\ \E rc \in RC :
          IF rc # 0
          THEN /\ failed' = failed \cup {"diff_name_only"}
               /\ ChangedFilesFailed
               /\ UNCHANGED <<files, prompt>>
          ELSE /\ files' = index
               /\ prompt' = create_prompt(DiffText(diff), args.style, FileList(files'))
               /\ Goto("generate")
               /\ UNCHANGED failed
    /\ UNCHANGED <<args, pr_run, genVars, repoVars, diff, message, push_success, tmpFile, calls,
                   handed, promptVars, pushed, interrupted>>

\* what POST /api/generate can do
GenOutcomes == {"ok", "no_response_field", "connection_error", "http_404",
                "http_500"}
GenerationFailedGoesOn == Goto(AfterGenerate)
\* generate_commit_message, lines 275-281
GenerationFailed == Exit(1, "generation_error")

\* generate_commit_message, line 262: result.get("response", "")
ResponseField(outcome, text) == IF outcome = "ok" THEN text ELSE <<>>

\* generate_commit_message
GenerateCommitMessage ==
    /\ pc = "generate"
    /\ calls' = Bump(calls, "generate")
    /\ \E outcome \in GenOutcomes, text \in Responses :
          IF outcome \in {"connection_error", "http_404", "http_500"}
          THEN /\ failed' = failed \cup {"generate"}
               /\ GenerationFailed
               /\ UNCHANGED <<message, generated>>
          ELSE /\ generated' = PostProcess(ResponseField(outcome, text))
               /\ message' = generated'
               /\ Goto(AfterGenerate)
               /\ UNCHANGED failed
    /\ UNCHANGED <<args, prompt, pr_run, raw, ticket, repoVars, diff, files, push_success, tmpFile, handed,
                   promptVars, pushed, interrupted>>

\* main, lines 531-536, with extract_ticket_from_branch
AddTicketPrefix ==
    /\ pc = "add_prefix"
    /\ \E rc \in RC :
          /\ ticket' = ExtractTicket(rc, currentBranch)
          /\ failed' = IF rc # 0 THEN failed \cup {"rev_parse"} ELSE failed
    /\ message' = AddPrefix(ticket', message)
    /\ Goto(AfterPrefix)
    /\ UNCHANGED <<args, prompt, pr_run, raw, generated, repoVars, diff, files, push_success, tmpFile, calls,
                   handed, promptVars, pushed, interrupted>>

\* subprocess.call([editor, tf_name]) raising FileNotFoundError, uncaught
EditorNotStarted == Exit(1, "editor_error")

\* edit_message, lines 285-290: write the temporary file, start the editor
EditMessageOpen ==
    /\ pc = "edit_message"
    /\ tmpFile' = TRUE
    /\ \E started \in BOOLEAN :
          IF started
          THEN Goto("editor_running") /\ UNCHANGED failed
          ELSE EditorNotStarted /\ failed' = failed \cup {"editor"}
    /\ UNCHANGED <<args, prompt, pr_run, genVars, repoVars, localVars, calls, handed, promptVars,
                   pushed, interrupted>>

\* edit_message, lines 290-296: the editor exits, the file is read and removed
EditMessageClose ==
    /\ pc = "editor_running"
    /\ \E content \in {message} \cup EditChoices : message' = content
    /\ tmpFile' = FALSE
    /\ Goto(AfterEdit)
    /\ UNCHANGED <<args, prompt, pr_run, genVars, repoVars, diff, files, push_success, calls, handed,
                   promptVars, failed, pushed, interrupted>>

\* result.returncode != 0 after git commit: sys.exit(1) (lines 310-312, 556-558)
CommitFailed == Exit(1, "commit_error")

\* run(["git", "commit", "-m", message]) and the test of its return code
GitCommit(rc, next) ==
    /\ calls' = Bump(calls, "commit")
    /\ handed' = handed \cup {message}
    /\ IF rc # 0
       THEN /\ failed' = failed \cup {"commit"}
            /\ CommitFailed
            /\ UNCHANGED <<index, commits>>
       ELSE /\ commits' = Min(commits + 1, MaxCalls)
            /\ index' = {}
            /\ Goto(next)
            /\ UNCHANGED failed

\* push_changes returning result: get_current_branch, then git push -u origin
PushChanges(result) ==
    \E brc \in RC, prc \in RC :
       /\ result = (brc = 0 /\ prc = 0)
       /\ calls' = IF brc = 0
                   THEN Bump(Bump(calls, "push_changes"), "git_push")
                   ELSE Bump(calls, "push_changes")
       /\ failed' = IF brc # 0 THEN failed \cup {"rev_parse"}
                    ELSE IF prc # 0 THEN failed \cup {"push"} ELSE failed
       /\ pushed' = (pushed \/ result)

YesWantsPushAlways == TRUE
\* main, line 566
YesWantsPush == args.push \/ args.pr
\* main, line 570
YesWantsPr == args.pr /\ push_success'

\* main, lines 552-562 (--yes): commit without asking
CommitDirect ==
    /\ pc = "commit_direct"
    /\ \E rc \in RC :
          GitCommit(rc, IF YesWantsPush THEN "yes_push" ELSE "done")
    /\ UNCHANGED <<args, prompt, pr_run, genVars, wtIn, wtOut, currentBranch, localBranches, localVars,
                   tmpFile, promptVars, pushed, interrupted>>

\* main, lines 564-570 (--yes): push_success = push_changes()
YesPush ==
    /\ pc = "yes_push"
    /\ \E result \in BOOLEAN :
          /\ PushChanges(result)
          /\ push_success' = result
    /\ Goto(IF YesWantsPr THEN "create_pr" ELSE "done")
    /\ UNCHANGED <<args, prompt, pr_run, genVars, repoVars, diff, files, message, tmpFile, handed,
                   promptVars, interrupted>>

\* main, lines 575-588: what follows create_commit, whatever it did
AfterCreateCommit == IF args.pr THEN "pr_prompt" ELSE "done"
\* create_commit, lines 305-307: the commit was declined
CommitDeclined == Goto(AfterCreateCommit)

\* create_commit, lines 301-315: confirmation, then commit
CreateCommit ==
    /\ pc = "create_commit"
    /\ asked' = Bump(asked, "commit")
    /\ \E choice \in Inputs, rc \in RC :
          IF SaysN(choice)
          THEN /\ declined' = declined \cup {"commit"}
               /\ CommitDeclined
               /\ UNCHANGED <<accepted, calls, handed, failed, index, commits>>
          ELSE /\ accepted' = accepted \cup {"commit"}
               /\ GitCommit(rc, "create_commit_push")
               /\ UNCHANGED declined
    /\ UNCHANGED <<args, prompt, pr_run, genVars, wtIn, wtOut, currentBranch, localBranches, localVars,
                   tmpFile, pushed, interrupted>>

\* create_commit, lines 317-323: push when auto_push, else ask
CreateCommitPush ==
    /\ pc = "create_commit_push"
    /\ IF args.push
       THEN /\ \E result \in BOOLEAN : PushChanges(result)
            /\ UNCHANGED promptVars
       ELSE /\ asked' = Bump(asked, "push")
            /\ \E choice \in Inputs :
                  IF SaysY(choice)
                  THEN /\ accepted' = accepted \cup {"push"}
                       /\ \E result \in BOOLEAN : PushChanges(result)
                       /\ UNCHANGED declined
                  ELSE /\ declined' = declined \cup {"push"}
                       /\ UNCHANGED <<accepted, calls, failed, pushed>>
    /\ Goto(AfterCreateCommit)
    /\ UNCHANGED <<args, prompt, pr_run, genVars, repoVars, localVars, tmpFile, handed, interrupted>>

\* main, lines 578-588: "Create PR?" in interactive mode
PrPrompt ==
    /\ pc = "pr_prompt"
    /\ asked' = Bump(asked, "pr")
    /\ \E choice \in Inputs :
          IF SaysY(choice)
          THEN /\ accepted' = accepted \cup {"pr"}
               /\ Goto(IF args.push THEN "create_pr" ELSE "pr_push")
               /\ UNCHANGED declined
          ELSE /\ declined' = declined \cup {"pr"}
               /\ Goto("done")
               /\ UNCHANGED accepted
    /\ UNCHANGED <<args, prompt, pr_run, genVars, repoVars, localVars, tmpFile, calls, handed, failed,
                   pushed, interrupted>>

\* main, line 582: if push_changes()
PrPush ==
    /\ pc = "pr_push"
    /\ \E result \in BOOLEAN :
          /\ PushChanges(result)
          /\ Goto(IF result THEN "create_pr" ELSE "done")
    /\ UNCHANGED <<args, prompt, pr_run, genVars, repoVars, localVars, tmpFile, handed, promptVars,
                   interrupted>>

\* check_base_branch, lines 431-461: the fetch it runs and what it returns
check_base_branch(base, rc, remote_rc, remotes, fetch_rc) ==
    IF rc = 0 THEN [fetch |-> NoFetch, result |-> TRUE]
    ELSE IF remote_rc # 0 \/ remotes = <<>>
    THEN [fetch |-> NoFetch, result |-> FALSE]
    ELSE [fetch |-> <<"git", "fetch", remotes[1], base, ":", base>>,
          result |-> fetch_rc = 0]

PrResultNeedsBase(base_ok, tool) == base_ok /\ tool = "exit_0"
\* create_pr, lines 410-429: False on a non-zero exit status and on an exception
PrResult(base_ok, tool) == tool = "exit_0"

\* create_pr: check_base_branch, then the llm_pr tool; main ignores the result
CreatePr ==
    /\ pc = "create_pr"
    /\ calls' = Bump(calls, "pr_tool")
    /\ \E base \in Bases, tool \in ToolOutcomes :
          \E rc \in IF base \in localBranches THEN {0} ELSE RC :
          \E remote_rc \in IF rc = 0 THEN {NotRun} ELSE RC :
          \E remotes \in IF remote_rc = 0 THEN RemoteLists ELSE {<<>>} :
          \E fetch_rc \in IF remotes # <<>> THEN RC ELSE {NotRun} :
             LET checked == check_base_branch(base, rc, remote_rc, remotes, fetch_rc)
             IN  /\ pr_run' = [ran |-> TRUE, base |-> base, rc |-> rc,
                               remote_rc |-> remote_rc, remotes |-> remotes,
                               fetch |-> checked.fetch,
                               base_ok |-> checked.result,
                               tool |-> tool,
                               result |-> PrResult(checked.result, tool)]
                 /\ failed' = IF tool # "exit_0" THEN failed \cup {"pr_tool"} ELSE failed
    /\ Goto("done")
    /\ UNCHANGED <<args, prompt, genVars, repoVars, localVars, tmpFile, handed, promptVars,
                   pushed, interrupted>>

InterruptAsError ==
    /\ pc # "done"
    /\ interrupted' = TRUE
    /\ Exit(1, "interrupt")
    /\ UNCHANGED <<args, prompt, pr_run, genVars, repoVars, localVars, tmpFile, calls, handed,
                   promptVars, failed, pushed>>
\* main, lines 592-594: KeyboardInterrupt anywhere inside the try block
Interrupt ==
    /\ pc # "done"
    /\ interrupted' = TRUE
    /\ Exit(0, "interrupt")
    /\ UNCHANGED <<args, prompt, pr_run, genVars, repoVars, localVars, tmpFile, calls, handed,
                   promptVars, failed, pushed>>

Next ==
    \/ CheckDependencies
    \/ CreateBranch
    \/ GetGitDiff
    \/ GetChangedFiles
    \/ GenerateCommitMessage
    \/ AddTicketPrefix
    \/ EditMessageOpen
    \/ EditMessageClose
    \/ CommitDirect
    \/ YesPush
    \/ CreateCommit
    \/ CreateCommitPush
    \/ PrPrompt
    \/ PrPush
    \/ CreatePr
    \/ Interrupt

Spec == Init /\ [][Next]_vars

\* ------------------------------------------------------------------ claims
Done == pc = "done"

\* C1: every message handed to git commit -m is non-empty; an empty
\* generation result ends the run before a commit is attempted.
C1_HandedMessageNonEmpty == \A m \in handed : m # <<>>

\* C2: in interactive mode a declined "Create commit?" ends the run: no
\* commit, no further prompt, no push, no PR creation, exit code 0.
C2_DeclinedCommitEndsRun ==
    "commit" \in declined =>
        /\ commits = 0
        /\ asked["push"] = 0
        /\ asked["pr"] = 0
        /\ calls["push_changes"] = 0
        /\ calls["pr_tool"] = 0
        /\ (Done => exitCode = 0)

\* C3: the PR-creation tool is invoked only if the PR flag is set and a
\* commit was created and a push succeeded earlier in the same run.
C3_PrOnlyAfterCommitAndPush ==
    calls["pr_tool"] > 0 => args.pr /\ commits > 0 /\ pushed

\* the push step has been passed without a fatal exit or an interrupt
PastPushStep ==
    \/ pc \in {"pr_prompt", "pr_push", "create_pr"}
    \/ exitAt = "completed"

\* C4, as stated: after a commit the push step runs unasked exactly when the
\* push flag is set; without the flag only interactively after a yes to the
\* push prompt; {yes, no push, no pr} ends with one commit and exit code 0.
C4_PushOnlyByFlagOrPushPrompt ==
    /\ calls["push_changes"] > 0 =>
          args.push \/ (~args.yes /\ "push" \in accepted)
    /\ args.push => asked["push"] = 0
    /\ (commits > 0 /\ args.push /\ PastPushStep) => calls["push_changes"] > 0
    /\ (args.yes /\ ~args.push) => calls["push_changes"] = 0
    /\ (Done /\ ~interrupted /\ failed = {} /\ diff # {} /\ ~args.dry_run
          /\ args.yes /\ ~args.push /\ ~args.pr)
         => commits = 1 /\ exitCode = 0

\* C4, amended: the push step also runs unasked in --yes mode when the PR
\* flag is set, and interactively after a yes to the "Create PR?" prompt.
C4_PushRule ==
    /\ calls["push_changes"] > 0 =>
          \/ args.push
          \/ (args.yes /\ args.pr)
          \/ (~args.yes /\ ("push" \in accepted \/ "pr" \in accepted))
    /\ args.push => asked["push"] = 0
    /\ (commits > 0 /\ args.push /\ PastPushStep) => calls["push_changes"] > 0
    /\ (args.yes /\ ~args.push /\ ~args.pr) => calls["push_changes"] = 0
    /\ (Done /\ ~interrupted /\ failed = {} /\ diff # {} /\ ~args.dry_run
          /\ args.yes /\ ~args.push /\ ~args.pr)
         => commits = 1 /\ exitCode = 0

C4_Witness ==
    /\ exitAt = "completed"
    /\ args.yes /\ ~args.push /\ args.pr
    /\ commits = 1
    /\ calls["push_changes"] = 1
    /\ asked["push"] = 0

\* C5: in one run the stage-all prompt is shown at most once and git add
\* runs at most once.
C5_StageAtMostOnce == asked["stage"] <= 1 /\ calls["add"] <= 1

\* C6: a diff command of diff collection that errors ends the process with
\* a non-zero exit code, before any generation or commit.
DiffCommands == {"diff_staged", "diff_unstaged", "diff_name_only"}
C6_DiffErrorIsFatal ==
    failed \cap DiffCommands # {} =>
        /\ Done
        /\ exitCode # 0
        /\ calls["generate"] = 0
        /\ calls["commit"] = 0

\* no generation, commit, push or PR creation has been started
NothingOutward ==
    /\ calls["generate"] = 0
    /\ calls["commit"] = 0
    /\ commits = 0
    /\ calls["push_changes"] = 0
    /\ calls["git_push"] = 0
    /\ calls["pr_tool"] = 0

\* C7: with no changes at all, or with unstaged changes only and the stage
\* prompt declined, the run ends with exit code 0 and without generation,
\* git add, commit, push or PR creation.
C7_EmptyInputIsCleanNoop ==
    /\ ("stage" \in declined \/ exitAt = "no_changes") =>
          /\ Done
          /\ exitCode = 0
          /\ NothingOutward
          /\ ("stage" \notin accepted => calls["add"] = 0)
    /\ calls["generate"] > 0 => diff # {}

C7_Witness ==
    /\ exitAt = "declined_stage"
    /\ "stage" \notin accepted
    /\ index = {}
    /\ wtIn # {}
    /\ exitCode = 0

\* C8: an external command whose success the requested steps require and
\* that returns non-zero ends the run with a non-zero exit code: the checked
\* diffs, add, checkout and commit always, the push when --push asked for
\* it, the PR tool when --pr asked for it.
AlwaysRequired == {"diff_staged", "diff_name_only", "add", "checkout",
                   "commit"}
RequiredFailed ==
    \/ failed \cap AlwaysRequired # {}
    \/ args.push /\ "push" \in failed
    \/ args.pr /\ "pr_tool" \in failed
C8_CommandFailureIsFatal ==
    (Done /\ ~interrupted /\ RequiredFailed) => exitCode # 0

\* C9: a run in which some prompt was answered "no" ends with exit code 0.
C9_DeclineExitsZero == (Done /\ declined # {}) => exitCode = 0

\* C10: a failed generation call (transport error or HTTP error status, 404
\* included) ends the process with a non-zero exit code, and the run neither
\* commits nor pushes nor creates a PR.
C10_GenerationFailureIsFatal ==
    "generate" \in failed =>
        /\ Done
        /\ exitCode # 0
        /\ handed = {}
        /\ calls["commit"] = 0
        /\ commits = 0
        /\ calls["push_changes"] = 0
        /\ calls["git_push"] = 0
        /\ calls["pr_tool"] = 0

C10_Witness ==
    /\ "generate" \in failed
    /\ exitAt = "generation_error"
    /\ exitCode = 1
    /\ diff # {}

\* ------------------------------------------------------------------ text functions
\* The text functions applied to inputs drawn from bounded sets: the input
\* is in raw, the step applies the function as the code does.
TextChars == {"a", ".", " ", NL}
TextResponses == SeqsUpTo(TextChars, MaxTextLen)
BranchChars == {"T", "A", "-", "1", "/", "a"}
NamedBranches ==
    {MainBranch, FeatureBranch,
     <<"n", "o", "j", "i", "r", "a">>,
     <<"a", "/", "N", "o", "J", "i", "r", "a", "-", "a">>,
     <<"a", "/", "n", "o", "j", "i", "r", "a", "-", "T", "-", "1">>,
     <<"n", "o", "j", "i", "r">>}
TextBranches == SeqsUpTo(BranchChars, MaxTextLen) \cup NamedBranches
PrefixChars == {"T", "-", "1", " ", "a"}
TextMessages == SeqsUpTo(PrefixChars, MaxTextLen)
TextTickets == {<<"T", "-", "1">>, <<"T", "T", "-", "1">>, NOJIRA}

\* file names and diff texts with braces in them
FileNames == {<<"a">>, <<"{", "}">>, <<"}">>, <<"{", "a">>}
TextFileLists == SeqsUpTo(FileNames, MaxFiles)
DiffChars == {"a", "{", "}", NL}
TextDiffs == SeqsUpTo(DiffChars, MaxDiffLen)

TextInit ==
    /\ pc \in {"text_post_process", "text_extract_ticket", "text_add_prefix",
              "text_create_prompt"}
    /\ raw \in CASE pc = "text_post_process" -> TextResponses
                 [] pc = "text_extract_ticket" -> TextBranches
                 [] pc = "text_add_prefix" -> TextMessages
                 [] OTHER -> {<<>>}
    /\ ticket \in IF pc = "text_add_prefix" THEN TextTickets ELSE {NoTicket}
    /\ \E style \in IF pc \in {"text_post_process", "text_create_prompt"}
                     THEN Styles ELSE {"conventional"} :
          args = [yes |-> FALSE, dry_run |-> FALSE, push |-> FALSE, pr |-> FALSE,
                  edit |-> FALSE, prefix |-> TRUE, branch |-> NoBranch,
                  style |-> style]
    /\ exitCode = -1
    /\ exitAt = "running"
    /\ index = {}
    /\ wtIn = {}
    /\ wtOut = {}
    /\ currentBranch = MainBranch
    /\ localBranches = {MainBranch}
    /\ commits = 0
    /\ diff \in IF pc = "text_create_prompt" THEN TextDiffs ELSE {<<>>}
    /\ files \in IF pc = "text_create_prompt" THEN TextFileLists ELSE {<<>>}
    /\ prompt = <<>>
    /\ pr_run = NoPrRun
    /\ message = <<>>
    /\ generated = <<>>
    /\ push_success = FALSE
    /\ tmpFile = FALSE
    /\ calls = [c \in CallNames |-> 0]
    /\ handed = {}
    /\ asked = [p \in PromptNames |-> 0]
    /\ declined = {}
    /\ accepted = {}
    /\ failed = {}
    /\ pushed = FALSE
    /\ interrupted = FALSE

\* generate_commit_message, lines 262-274, on the response raw
TextPostProcess ==
    /\ pc = "text_post_process"
    /\ generated' = PostProcess(raw)
    /\ message' = generated'
    /\ pc' = "text_post_processed"
    /\ UNCHANGED <<args, prompt, pr_run, raw, ticket, exitCode, exitAt, repoVars, diff, files,
                   push_success, tmpFile, calls, handed, promptVars, failed,
                   pushed, interrupted>>

\* extract_ticket_from_branch when git rev-parse prints the branch name raw
TextExtractTicket ==
    /\ pc = "text_extract_ticket"
    /\ \E rc \in RC :
          /\ ticket' = ExtractTicket(rc, raw)
          /\ failed' = IF rc # 0 THEN failed \cup {"rev_parse"} ELSE failed
    /\ pc' = "text_ticket_extracted"
    /\ UNCHANGED <<args, prompt, pr_run, raw, generated, exitCode, exitAt, repoVars, localVars,
                   tmpFile, calls, handed, promptVars, pushed, interrupted>>

\* main, lines 533-536, on the message raw
TextAddPrefix ==
    /\ pc = "text_add_prefix"
    /\ message' = AddPrefix(ticket, raw)
    /\ pc' = "text_prefixed"
    /\ UNCHANGED <<args, prompt, pr_run, genVars, exitCode, exitAt, repoVars, diff, files,
                   push_success, tmpFile, calls, handed, promptVars, failed,
                   pushed, interrupted>>

\* create_prompt on the diff text diff and the file list files
TextCreatePrompt ==
    /\ pc = "text_create_prompt"
    /\ prompt' = create_prompt(diff, args.style, files)
    /\ pc' = "text_prompt_created"
    /\ UNCHANGED <<args, pr_run, genVars, exitCode, exitAt, repoVars, localVars, tmpFile,
                   calls, handed, promptVars, failed, pushed, interrupted>>

TextNext ==
    \/ TextPostProcess
    \/ TextExtractTicket
    \/ TextAddPrefix
    \/ TextCreatePrompt

TextSpec == TextInit /\ [][TextNext]_vars

\* C11: prefixing with ticket leaves a message that holds the ticket as a
\* whole word unchanged, puts "<ticket>: " before any other message, and
\* changes nothing when applied to its own output.
Padded(m) == <<" ">> \o m \o <<" ">>
HoldsWholeWord(t, m) ==
    \E i \in 1..(Len(m) + 2) :
        /\ i + Len(t) + 1 <= Len(m) + 2
        /\ Padded(m)[i] \notin WordChars
        /\ SubSeq(Padded(m), i + 1, i + Len(t)) = t
        /\ Padded(m)[i + Len(t) + 1] \notin WordChars
C11_PrefixIdempotent ==
    pc = "text_prefixed" =>
        /\ HoldsWholeWord(ticket, raw) => message = raw
        /\ ~HoldsWholeWord(ticket, raw) => message = ticket \o <<":", " ">> \o raw
        /\ AddPrefix(ticket, message) = message

C11_Witness ==
    /\ pc = "text_prefixed"
    /\ ticket = <<"T", "-", "1">>
    /\ raw = <<"T", "-", "1", "1">>
    /\ message = <<"T", "-", "1", ":", " ", "T", "-", "1", "1">>

\* the run of C12: --branch f/T-1 --prefix --yes, a diff was collected, every
\* external command succeeded, no prompt was declined, the run is over
FeatureTicket == <<"T", "-", "1">>
BranchPrefixYesRun ==
    /\ Done /\ ~interrupted
    /\ failed = {} /\ declined = {}
    /\ args.yes /\ args.prefix /\ args.branch = FeatureBranch
    /\ ~args.dry_run /\ ~args.edit
    /\ diff # {}

BeginsWith(m, p) == Len(m) >= Len(p) /\ SubSeq(m, 1, Len(p)) = p

\* C12, as stated: such a run ends on the branch with exit code 0 and one
\* commit whose message begins with "T-1: ", whatever text was generated.
C12_MessageBeginsWithTicket ==
    BranchPrefixYesRun =>
        /\ currentBranch = FeatureBranch
        /\ exitCode = 0
        /\ commits = 1
        /\ \A m \in handed : BeginsWith(m, FeatureTicket \o <<":", " ">>)

\* C12, amended: the message begins with "T-1: " unless the generated text
\* already holds T-1 as a whole word; then it is committed as generated.
C12_MessageCarriesTicket ==
    BranchPrefixYesRun =>
        /\ currentBranch = FeatureBranch
        /\ exitCode = 0
        /\ commits = 1
        /\ handed # {}
        /\ \A m \in handed :
              IF HoldsWholeWord(FeatureTicket, generated)
              THEN m = generated
              ELSE m = FeatureTicket \o <<":", " ">> \o generated

C12_Witness ==
    /\ BranchPrefixYesRun
    /\ generated = <<"T", "-", "1", "1">>
    /\ handed = {<<"T", "-", "1", ":", " ", "T", "-", "1", "1">>}
    /\ FeatureBranch \in localBranches

\* t is one or more upper-case letters, a hyphen, one or more digits
TicketShape(t) ==
    \E k \in 1..(Len(t) - 2) :
        /\ \A i \in 1..k : t[i] \in Upper
        /\ t[k + 1] = "-"
        /\ \A i \in (k + 2)..Len(t) : t[i] \in Digits
\* the matches <<first, last>> of the ticket pattern in s that start at the
\* beginning of s or right after "/" or "-"
TicketMatches(s) ==
    {m \in (1..Len(s)) \X (1..Len(s)) :
        /\ m[1] <= m[2]
        /\ TicketShape(SubSeq(s, m[1], m[2]))
        /\ (m[1] = 1 \/ s[m[1] - 1] \in {"/", "-"})}
\* the first match, taken as long as it goes
FirstTicketMatch(s) ==
    CHOOSE m \in TicketMatches(s) :
        \A o \in TicketMatches(s) :
            m[1] < o[1] \/ (m[1] = o[1] /\ m[2] >= o[2])
\* s contains "nojira" in any mix of cases
EitherCase == [n |-> {"n", "N"}, o |-> {"o", "O"}, j |-> {"j", "J"},
               i |-> {"i", "I"}, r |-> {"r", "R"}, a |-> {"a", "A"}]
MentionsNojira(s) ==
    \E p \in 0..(Len(s) - 6) :
        /\ s[p + 1] \in EitherCase.n /\ s[p + 2] \in EitherCase.o
        /\ s[p + 3] \in EitherCase.j /\ s[p + 4] \in EitherCase.i
        /\ s[p + 5] \in EitherCase.r /\ s[p + 6] \in EitherCase.a

\* C13: extract_ticket_from_branch returns the first ticket match that starts
\* at the beginning of the name or right after "/" or "-", else NOJIRA when
\* the name mentions nojira in any case, else nothing; when the branch-name
\* command fails it returns nothing, and the process goes on.
C13_TicketExtraction ==
    pc = "text_ticket_extracted" =>
        /\ exitCode = -1
        /\ ticket =
             IF "rev_parse" \in failed THEN NoTicket
             ELSE IF TicketMatches(raw) # {}
                  THEN SubSeq(raw, FirstTicketMatch(raw)[1],
                              FirstTicketMatch(raw)[2])
                  ELSE IF MentionsNojira(raw)
                       THEN <<"N", "O", "J", "I", "R", "A">>
                       ELSE NoTicket

C13_Witness ==
    /\ pc = "text_ticket_extracted"
    /\ raw = <<"a", "/", "n", "o", "j", "i", "r", "a", "-", "T", "-", "1">>
    /\ ticket = <<"T", "-", "1">>

\* C14: create_branch creates and switches without a prompt when no local
\* branch has the name; when one has, it never re-creates it and switches
\* only after the switch prompt was accepted; a declined switch or a failed
\* checkout ends the run before any diff collection, generation or commit.
BranchStepHalted ==
    \/ "switch" \in declined
    \/ "checkout" \in failed
C14_BranchStep ==
    /\ [](BranchStepHalted =>
             /\ Done
             /\ exitCode # 0
             /\ calls["diff"] = 0
             /\ calls["generate"] = 0
             /\ calls["commit"] = 0)
    /\ [][/\ (pc = "create_branch" /\ pc' # "create_branch" /\ ~interrupted') =>
                IF args.branch \in localBranches
                THEN /\ calls'["checkout_b"] = 0
                     /\ asked'["switch"] = 1
                     /\ (calls'["checkout"] = 1) = ("switch" \in accepted')
                     /\ (currentBranch' # currentBranch =>
                           "switch" \in accepted' /\ "checkout" \notin failed')
                ELSE /\ calls'["checkout_b"] = 1
                     /\ calls'["checkout"] = 0
                     /\ asked' = asked
                     /\ ("checkout" \notin failed' =>
                           /\ currentBranch' = args.branch
                           /\ args.branch \in localBranches')
          /\ (pc # "create_branch" \/ interrupted') =>
                /\ calls'["checkout"] = calls["checkout"]
                /\ calls'["checkout_b"] = calls["checkout_b"]]_vars

C14_Witness ==
    /\ args.branch = FeatureBranch
    /\ currentBranch = FeatureBranch
    /\ calls["checkout"] = 1
    /\ calls["checkout_b"] = 0
    /\ "switch" \in accepted
    /\ calls["commit"] = 1

\* C15: edit_message's temporary file is removed on every exit path, so no
\* run ends with the file still there.
C15_TempFileRemoved == Done => ~tmpFile

\* C16: an interrupt at any point from the dependency check on ends the
\* process at once with exit code 0; the interrupt step starts no external
\* command and undoes nothing, and nothing happens after it.
C16_InterruptEndsRun ==
    /\ [](interrupted => Done /\ exitCode = 0)
    /\ [](~Done => ENABLED Interrupt)
    /\ [][(interrupted' /\ ~interrupted) =>
             /\ calls' = calls
             /\ commits' = commits
             /\ handed' = handed
             /\ index' = index
             /\ currentBranch' = currentBranch
             /\ pushed' = pushed]_vars
    /\ [][~interrupted]_vars

C16_Witness ==
    /\ interrupted
    /\ args.push
    /\ commits = 1
    /\ calls["push_changes"] = 0
    /\ exitCode = 0

\* C17: a missing dependency (git absent or failing, endpoint unreachable or
\* not answering 200) ends the process non-zero before any branch operation,
\* diff, staging, generation, commit, push or PR creation.
C17_DependencyMissingIsFatal ==
    failed \cap {"git_version", "api_tags"} # {} =>
        /\ Done
        /\ exitCode # 0
        /\ \A c \in CallNames : calls[c] = 0
        /\ \A p \in PromptNames : asked[p] = 0
        /\ commits = 0
        /\ handed = {}

C17_Witness ==
    /\ "api_tags" \in failed
    /\ exitCode = 1
    /\ args.branch # NoBranch
    /\ index # {}

\* C18: with --dry-run no commit is created and no push or PR creation is
\* performed, whatever the other flags and the user's answers.
C18_DryRunCommitsNothing ==
    args.dry_run =>
        /\ calls["commit"] = 0
        /\ commits = 0
        /\ handed = {}
        /\ calls["push_changes"] = 0
        /\ calls["git_push"] = 0
        /\ calls["pr_tool"] = 0

C18_Witness ==
    /\ args.dry_run /\ args.yes /\ args.push /\ args.pr /\ args.edit
    /\ exitAt = "completed"
    /\ calls["generate"] = 1

\* C19: with --yes the run never waits for user input: no prompt is shown.
C19_YesNeverPrompts == args.yes => \A p \in PromptNames : asked[p] = 0

\* C20: the post-processed response is the first non-empty line of the
\* whitespace-trimmed response, without the trailing whitespace of that line
\* and then without its trailing punctuation.
Blank(s) == \A i \in 1..Len(s) : s[i] \in Whitespace
\* the position of the first character of s that is no whitespace
FirstInk(s) == CHOOSE i \in 1..Len(s) :
                   s[i] \notin Whitespace /\ \A j \in 1..(i - 1) : s[j] \in Whitespace
\* the last position of the line of s that starts at position i
LineEnd(s, i) == CHOOSE e \in i..Len(s) :
                     /\ \A j \in i..e : s[j] # NL
                     /\ (e = Len(s) \/ s[e + 1] = NL)
\* line is r, then punctuation only, then whitespace only, as far as each goes
CutsTo(line, r) ==
    \E k \in 0..Len(line), l \in 0..Len(line) :
        /\ k <= l
        /\ r = SubSeq(line, 1, k)
        /\ \A j \in (k + 1)..l : line[j] \in TrailingPunct
        /\ \A j \in (l + 1)..Len(line) : line[j] \in Whitespace
        /\ (l >= 1 => line[l] \notin Whitespace)
        /\ (k >= 1 => line[k] \notin TrailingPunct)
C20_FirstLineWithoutTrailingPunct ==
    pc = "text_post_processed" =>
        /\ ~HasNewline(generated)
        /\ (generated # <<>> =>
              generated[Len(generated)] \notin TrailingPunct)
        /\ IF Blank(raw) THEN generated = <<>>
           ELSE CutsTo(SubSeq(raw, FirstInk(raw), LineEnd(raw, FirstInk(raw))),
                       generated)

C20_Witness ==
    /\ pc = "text_post_processed"
    /\ raw = <<NL, "a", ".", NL>>
    /\ generated = <<"a">>

\* C21: for every style, file list and diff text, create_prompt returns the
\* style's instruction text with the newline-joined file list in the first
\* slot and the diff text in the second, both verbatim, braces included.
RECURSIVE NameStart(_, _)
\* where the i-th name starts in the joined file list
NameStart(fs, i) == IF i = 1 THEN 1 ELSE NameStart(fs, i - 1) + Len(fs[i - 1]) + 1
IsJoined(fs, text) ==
    IF fs = <<>> THEN text = <<>>
    ELSE /\ Len(text) = NameStart(fs, Len(fs)) + Len(fs[Len(fs)]) - 1
         /\ \A i \in 1..Len(fs) :
               /\ SubSeq(text, NameStart(fs, i), NameStart(fs, i) + Len(fs[i]) - 1)
                     = fs[i]
               /\ (i < Len(fs) => text[NameStart(fs, i) + Len(fs[i])] = NL)
StyleHead(style) ==
    <<NL, Instructions(style), NL, NL, "Changed files:", NL>>
C21_PromptHoldsFilesAndDiffVerbatim ==
    pc = "text_prompt_created" =>
        \E joined \in {SubSeq(prompt, 7, e) : e \in 6..Len(prompt)} :
            /\ IsJoined(files, joined)
            /\ prompt = StyleHead(args.style) \o joined
                          \o <<NL, NL, "Diff:", NL>> \o diff \o <<NL>>

C21_Witness ==
    /\ pc = "text_prompt_created"
    /\ args.style = "detailed"
    /\ files = << <<"{", "}">>, <<"a">> >>
    /\ diff = <<"}", "{">>
    /\ prompt = StyleHead("detailed") \o <<"{", "}", NL, "a">>
                  \o <<NL, NL, "Diff:", NL, "}", "{", NL>>

\* C22: for the detailed style the full text of the response is kept in the
\* commit message: every character of the response that is neither
\* whitespace nor trailing punctuation is in the message, in order.
InkOf(text) == SelectSeq(text, LAMBDA c : c \notin Whitespace \cup TrailingPunct)
C22_DetailedKeepsFullText ==
    (pc = "text_post_processed" /\ args.style = "detailed") =>
        InkOf(message) = InkOf(raw)

\* C23: check_base_branch fetches only when the base does not resolve
\* locally and a remote is configured, from the first listed remote with
\* refspec base:base; whatever it returns, create_pr runs the PR tool, and
\* create_pr's result is true exactly when the tool exits with status 0.
C23_BaseBranchIsSoftFailure ==
    /\ pr_run.ran =>
          /\ (pr_run.fetch # NoFetch =>
                /\ pr_run.rc # 0
                /\ pr_run.remotes # <<>>
                /\ pr_run.fetch = <<"git", "fetch", Head(pr_run.remotes),
                                    pr_run.base, ":", pr_run.base>>)
          /\ (pr_run.rc = 0 => pr_run.base_ok)
          /\ calls["pr_tool"] >= 1
          /\ pr_run.tool \in ToolOutcomes
          /\ pr_run.result = (pr_run.tool = "exit_0")
    /\ (pc = "done" /\ calls["pr_tool"] = 0) => ~pr_run.ran

C23_Witness ==
    /\ pr_run.ran
    /\ pr_run.remotes = <<"upstream", "origin">>
    /\ pr_run.fetch # NoFetch
    /\ ~pr_run.base_ok
    /\ pr_run.tool = "exit_0"
    /\ pr_run.result

\* C24: when a staged diff is present at the start of diff collection,
\* get_git_diff returns exactly that diff, and the run never shows the
\* stage-all prompt and never runs git add: an invocation that finds staged
\* changes returns them or ends the run, without prompt or git add, and
\* diff collection is never entered again after it was left.
C24_StagedDiffNeverPrompts ==
    [][/\ (pc = "get_git_diff" /\ index # {} /\ ~interrupted') =>
             /\ pc' \in {"get_changed_files", "done"}
             /\ asked' = asked
             /\ calls'["add"] = calls["add"]
             /\ calls'["diff"] >= 1
             /\ index' = index
             /\ (pc' = "get_changed_files" => diff' = index)
       /\ pc # "get_git_diff" =>
             /\ asked'["stage"] = asked["stage"]
             /\ calls'["add"] = calls["add"]
             /\ calls'["diff"] = calls["diff"]
             /\ (pc' = "get_git_diff" =>
                    /\ pc \in {"check_dependencies", "create_branch"}
                    /\ calls["diff"] = 0
                    /\ index' = index)
       /\ (pc \in {"check_dependencies", "create_branch"}) => index' = index]_vars

C24_Witness ==
    /\ pc = "generate"
    /\ diff = {"f1"}
    /\ index = {"f1"}
    /\ wtIn = {"f2"}
    /\ asked["stage"] = 0
    /\ calls["add"] = 0
    /\ calls["diff"] = 1

\* C25: in a run git commit is invoked at most once, git push at most once
\* and only after the commit, and the PR tool at most once and only after
\* the push.
C25_OutwardStepsOnceInOrder ==
    /\ calls["commit"] <= 1
    /\ calls["git_push"] <= 1
    /\ (calls["git_push"] >= 1 => calls["commit"] >= 1)
    /\ calls["pr_tool"] <= 1
    /\ (calls["pr_tool"] >= 1 => calls["git_push"] >= 1)

====
